---- MODULE Spec2Model ----
(***************************************************************************)
(* Model of rebound's Simulation Archive (src/src/simulationarchive.c):    *)
(* the heartbeat that writes the header and appends fixed-size blobs, the  *)
(* blob loader, and restart.                                               *)
(*                                                                         *)
(* Doubles are modelled as integers (simulated time and wall-clock time in *)
(* ticks).  The archive file is a header (an opaque full-state snapshot    *)
(* of HeaderBytes bytes) followed by a body, a sequence of 8-byte words.   *)
(* Sizes and offsets are kept in bytes, as in the code.                    *)
(***************************************************************************)
EXTENDS Integers, Sequences, FiniteSets, TLC

VARIABLES r, file, clock, q, rd, last, snaps, hb, lp

vars == <<r, file, clock, q, rd, last, snaps, hb, lp>>

---------------------------------------------------------------------------
(* Bounds of the model *)

MaxN == 2
MaxT == 4
MaxDt == 3
MaxInterval == 2
MaxBlob == 3
MaxTmax == 3

(* Program constants *)

SizeofDouble == 8
HeaderFixedWords == 100
HeaderParticleWords == 16

Integrators == {"WHFAST", "IAS15", "LEAPFROG"}
Gravities == {"BASIC", "NONE", "COMPENSATED"}

(* values that bytes of the opaque header decode to when read as a double *)
HeaderGarbage == {0, 3}

(* values found in memory that malloc returned and nothing has written *)
MallocGarbage == {0, 7}

---------------------------------------------------------------------------
(* Helpers on sequences *)

RECURSIVE Flatten(_)
Flatten(ss) == IF ss = <<>> THEN <<>> ELSE Head(ss) \o Flatten(Tail(ss))

RECURSIVE PrefixSum(_, _)
PrefixSum(ms, i) == IF i = 0 THEN 0 ELSE PrefixSum(ms, i - 1) + ms[i]

---------------------------------------------------------------------------
(* The simulation structure and the data the integrators leave in it *)

Particle(m, x, y, z, vx, vy, vz) ==
    [m |-> m, x |-> x, y |-> y, z |-> z, vx |-> vx, vy |-> vy, vz |-> vz]

(* value of slot `tag' of the state at simulated time t: distinct per slot *)
Val(tag, t) == tag * 10 + t

Mass(i) == i

InertialParticle(i, t) ==
    Particle(Mass(i), Val(10*i + 1, t), Val(10*i + 2, t), Val(10*i + 3, t),
             Val(10*i + 4, t), Val(10*i + 5, t), Val(10*i + 6, t))

JacobiParticle(i, t) ==
    Particle(Mass(i), Val(100 + 10*i + 1, t), Val(100 + 10*i + 2, t),
             Val(100 + 10*i + 3, t), Val(100 + 10*i + 4, t),
             Val(100 + 10*i + 5, t), Val(100 + 10*i + 6, t))

(* a reb_dp7: seven arrays p0..p6 of N3 doubles *)
Dp7(tb, N3, t) == [c \in 1..7 |-> [j \in 1..N3 |-> Val(1000 + 100*tb + 10*c + j, t)]]
ZeroDp7(N3) == [c \in 1..7 |-> [j \in 1..N3 |-> 0]]
NullDp7 == [c \in 1..7 |-> <<>>]

reb_create_simulation ==
    [t |-> 0, N |-> 0, integrator |-> "IAS15", gravity |-> "BASIC",
     dt |-> 1, dt_last_done |-> 0,
     particles |-> <<>>,
     ri_whfast |-> [safe_mode |-> 1, allocated_N |-> 0, p_j |-> <<>>,
                    eta |-> <<>>, is_synchronized |-> 1],
     ri_ias15 |-> [allocatedN |-> 0, b |-> NullDp7, csb |-> NullDp7,
                   e |-> NullDp7, br |-> NullDp7, er |-> NullDp7,
                   csx |-> <<>>, csv |-> <<>>],
     simulationarchive_next |-> 0,
     simulationarchive_interval |-> 0,
     simulationarchive_walltime |-> 0,
     simulationarchive_time |-> 0,
     simulationarchive_seek_blob |-> 0,
     simulationarchive_seek_first |-> 0,
     messages |-> {}]

(* the simulation as the user sets it up before integrating *)
SetupSimulation(N, integ, grav, safe, interval) ==
    [reb_create_simulation EXCEPT
        !.N = N, !.integrator = integ, !.gravity = grav,
        !.particles = [i \in 1..N |-> InertialParticle(i, 0)],
        !.ri_whfast.safe_mode = safe,
        !.simulationarchive_interval = interval]

reb_error(s, msg) == [s EXCEPT !.messages = @ \cup {msg}]

reb_warning(s, msg) == [s EXCEPT !.messages = @ \cup {msg}]

(* one step of the active integrator, advancing t by d *)
reb_step(s, d) ==
    LET t2 == s.t + d
        N  == s.N
        N3 == 3 * N
        s1 == [s EXCEPT !.t = t2]
    IN  CASE s.integrator = "WHFAST" ->
                [s1 EXCEPT
                   !.particles = IF s.ri_whfast.safe_mode = 1
                                 THEN [i \in 1..N |-> InertialParticle(i, t2)]
                                 ELSE @,
                   !.ri_whfast.allocated_N = N,
                   !.ri_whfast.p_j = [i \in 1..N |-> JacobiParticle(i, t2)],
                   !.ri_whfast.eta = [i \in 1..N |->
                                        PrefixSum([k \in 1..N |-> Mass(k)], i)],
                   !.ri_whfast.is_synchronized = s.ri_whfast.safe_mode]
          [] s.integrator = "IAS15" ->
                [s1 EXCEPT
                   !.dt = d + MaxDt,
                   !.dt_last_done = d,
                   !.particles = [i \in 1..N |-> InertialParticle(i, t2)],
                   !.ri_ias15 = [allocatedN |-> N3,
                                 b |-> Dp7(1, N3, t2), csb |-> Dp7(2, N3, t2),
                                 e |-> Dp7(3, N3, t2), br |-> Dp7(4, N3, t2),
                                 er |-> Dp7(5, N3, t2),
                                 csx |-> [j \in 1..N3 |-> Val(2000 + j, t2)],
                                 csv |-> [j \in 1..N3 |-> Val(2100 + j, t2)]]]
          [] OTHER ->
                [s1 EXCEPT
                   !.particles = [i \in 1..N |-> InertialParticle(i, t2)]]

---------------------------------------------------------------------------
(* The archive file *)

NoFile == [exists |-> FALSE, hdr |-> <<>>, body |-> <<>>]

HeaderBytes(N) == SizeofDouble * (HeaderFixedWords + HeaderParticleWords * N)

HeaderLen(f) == IF f.hdr = <<>> THEN 0 ELSE HeaderBytes(f.hdr[1].N)

FileSize(f) == IF f.exists THEN HeaderLen(f) + SizeofDouble * Len(f.body) ELSE 0

(* fseek: fails iff the resulting position would be negative; a position *)
(* at or beyond end of file is accepted                                  *)
fseek(f, offset, whence) ==
    LET pos == IF whence = "SEEK_END" THEN FileSize(f) + offset ELSE offset
    IN  [ret |-> IF pos < 0 THEN -1 ELSE 0, pos |-> pos]

(* fread of the k-th double after position pos into a variable holding   *)
(* `old': at end of file nothing is read and the variable is unchanged;  *)
(* bytes of the header decode to g                                       *)
fread(f, pos, k, old, g) ==
    LET w  == pos \div SizeofDouble + k - 1
        hw == HeaderLen(f) \div SizeofDouble
    IN  IF w < hw THEN g
        ELSE IF w - hw < Len(f.body) THEN f.body[w - hw + 1]
        ELSE old

---------------------------------------------------------------------------
(* External collaborators: the full-state binary format and IAS15 helpers *)

(* reb_output_binary: (re)creates the file holding only the header, a    *)
(* snapshot of the whole simulation structure; the offset of the first   *)
(* blob, simulationarchive_seek_first, is the length of that header      *)
reb_output_binary(s, f) ==
    LET s1 == [s EXCEPT !.simulationarchive_seek_first = HeaderBytes(s.N)]
    IN  [r |-> s1, file |-> [exists |-> TRUE, hdr |-> <<s1>>, body |-> <<>>]]

(* the importer: rebuilds the simulation from the header; the message    *)
(* buffer is not part of the snapshot.  A file without a header is       *)
(* reported through the warnings and builds nothing.                     *)
reb_create_simulation_from_binary_with_messages(s, f) ==
    IF f.exists /\ f.hdr # <<>>
    THEN [warnings |-> FALSE, r |-> [f.hdr[1] EXCEPT !.messages = {}]]
    ELSE [warnings |-> TRUE, r |-> s]

reb_create_simulation_from_binary(f) ==
    LET imp == reb_create_simulation_from_binary_with_messages(reb_create_simulation, f)
    IN  IF imp.warnings THEN <<>> ELSE <<imp.r>>

(* reb_save_dp7: the seven arrays p0..p6, N3 doubles each, in order *)
reb_save_dp7(dp7, N3) == Flatten([c \in 1..7 |-> SubSeq(dp7[c], 1, N3)])

(* reb_read_dp7: the inverse, reading from word offset base+1 on *)
reb_read_dp7(dp7, N3, f, pos, base, g) ==
    [c \in 1..7 |-> [j \in 1..N3 |->
        fread(f, pos, base + (c - 1) * N3 + j, dp7[c][j], g)]]

(* reb_integrator_ias15_alloc: tables sized to 3N, zeroed when they grow *)
reb_integrator_ias15_alloc(s) ==
    LET N3 == 3 * s.N
    IN  IF N3 > s.ri_ias15.allocatedN
        THEN [s EXCEPT !.ri_ias15 =
                 [allocatedN |-> N3,
                  b |-> ZeroDp7(N3), csb |-> ZeroDp7(N3), e |-> ZeroDp7(N3),
                  br |-> ZeroDp7(N3), er |-> ZeroDp7(N3),
                  csx |-> [j \in 1..N3 |-> 0], csv |-> [j \in 1..N3 |-> 0]]]
        ELSE s

---------------------------------------------------------------------------
(* reb_simulationarchive_blobsize *)

(* variant: the mass is left out of the per-particle count *)
reb_simulationarchive_blobsize_nomass(s) ==
    CASE s.integrator = "WHFAST" ->
            [ret |-> SizeofDouble * 2 + SizeofDouble * 6 * s.N, r |-> s]
      [] s.integrator = "IAS15" ->
            [ret |-> SizeofDouble * 4 + SizeofDouble * 3 * s.N * 5 * 7
                     + SizeofDouble * 6 * s.N + SizeofDouble * 3 * s.N * 2,
             r |-> s]
      [] OTHER ->
            [ret |-> 0,
             r |-> reb_error(s, "Simulation archive not implemented for this integrator.")]

reb_simulationarchive_blobsize(s) ==
    CASE s.integrator = "WHFAST" ->
            [ret |-> SizeofDouble * 2 + SizeofDouble * 7 * s.N, r |-> s]
      [] s.integrator = "IAS15" ->
            [ret |-> SizeofDouble * 4 + SizeofDouble * 3 * s.N * 5 * 7
                     + SizeofDouble * 7 * s.N + SizeofDouble * 3 * s.N * 2,
             r |-> s]
      [] OTHER ->
            [ret |-> 0,
             r |-> reb_error(s, "Simulation archive not implemented for this integrator.")]

---------------------------------------------------------------------------
(* reb_simulationarchive_estimate_size: ret is the returned number of    *)
(* bytes, r the simulation after the call                                *)

(* ceil(a / b) for a >= 0 and b > 0 *)
Ceil(a, b) == IF a % b = 0 THEN a \div b ELSE a \div b + 1

(* variant: the number of blobs is rounded down *)
reb_simulationarchive_estimate_size_floor(s, tmax) ==
    IF s.simulationarchive_interval # 0
    THEN LET blobsize == reb_simulationarchive_blobsize(s)
         IN  [ret |-> blobsize.ret * (tmax \div s.simulationarchive_interval),
              r |-> blobsize.r]
    ELSE [ret |-> 0, r |-> reb_warning(s, "Simulationarchive interval not set.")]

reb_simulationarchive_estimate_size(s, tmax) ==
    IF s.simulationarchive_interval # 0
    THEN LET blobsize == reb_simulationarchive_blobsize(s)
         IN  [ret |-> blobsize.ret * Ceil(tmax, s.simulationarchive_interval),
              r |-> blobsize.r]
    ELSE [ret |-> 0, r |-> reb_warning(s, "Simulationarchive interval not set.")]

---------------------------------------------------------------------------
(* reb_simulationarchive_heartbeat *)

(* the seven doubles written per particle: the mass of particles[i], then *)
(* position and velocity of ps[i]                                         *)
ParticleWords(s, ps, i) ==
    <<s.particles[i].m, ps[i].x, ps[i].y, ps[i].z, ps[i].vx, ps[i].vy, ps[i].vz>>

(* the integrator-specific part of a blob *)
BlobPayload(s) ==
    CASE s.integrator = "WHFAST" ->
            LET ps == IF s.ri_whfast.safe_mode = 0 THEN s.ri_whfast.p_j
                      ELSE s.particles
            IN  Flatten([i \in 1..s.N |-> ParticleWords(s, ps, i)])
      [] s.integrator = "IAS15" ->
            LET N3 == s.N * 3
            IN  <<s.dt, s.dt_last_done>>
                \o Flatten([i \in 1..s.N |-> ParticleWords(s, s.particles, i)])
                \o reb_save_dp7(s.ri_ias15.b, N3)
                \o reb_save_dp7(s.ri_ias15.csb, N3)
                \o reb_save_dp7(s.ri_ias15.e, N3)
                \o reb_save_dp7(s.ri_ias15.br, N3)
                \o reb_save_dp7(s.ri_ias15.er, N3)
                \o SubSeq(s.ri_ias15.csx, 1, N3)
                \o SubSeq(s.ri_ias15.csv, 1, N3)
      [] OTHER -> <<>>

(* first output, t == 0 *)
HeartbeatFirst(s, f, now) ==
    LET bs == reb_simulationarchive_blobsize(s)
        s1 == [bs.r EXCEPT !.simulationarchive_seek_blob = bs.ret]
        s2 == IF s1.gravity \in {"BASIC", "NONE"} THEN s1
              ELSE reb_error(s1, "Simulation archive not implemented for this gravity module.")
        s3 == [s2 EXCEPT
                 !.simulationarchive_next = @ + s2.simulationarchive_interval,
                 !.simulationarchive_walltime = 0,
                 !.simulationarchive_time = now]
    IN  reb_output_binary(s3, f)

(* variant: the schedule test is strict, next < t *)
HeartbeatAppend_strict(s, f, now) ==
    IF s.simulationarchive_next < s.t
    THEN LET s1 == [s EXCEPT
                      !.simulationarchive_next = @ + s.simulationarchive_interval,
                      !.simulationarchive_walltime = @ + (now - s.simulationarchive_time),
                      !.simulationarchive_time = now]
             s2 == IF s1.integrator \in {"WHFAST", "IAS15"} THEN s1
                   ELSE reb_error(s1, "Simulation archive not implemented for this integrator.")
             words == <<s1.t, s1.simulationarchive_walltime>> \o BlobPayload(s1)
         IN  [r |-> s2,
              file |-> [exists |-> TRUE, hdr |-> f.hdr, body |-> f.body \o words]]
    ELSE [r |-> s, file |-> f]

(* variant: the size of a blob is computed again at every output *)
HeartbeatAppend_resize(s, f, now) ==
    IF s.simulationarchive_next <= s.t
    THEN LET s1 == [s EXCEPT
                      !.simulationarchive_seek_blob =
                          reb_simulationarchive_blobsize(s).ret,
                      !.simulationarchive_next = @ + s.simulationarchive_interval,
                      !.simulationarchive_walltime = @ + (now - s.simulationarchive_time),
                      !.simulationarchive_time = now]
             s2 == IF s1.integrator \in {"WHFAST", "IAS15"} THEN s1
                   ELSE reb_error(s1, "Simulation archive not implemented for this integrator.")
             words == <<s1.t, s1.simulationarchive_walltime>> \o BlobPayload(s1)
         IN  [r |-> s2,
              file |-> [exists |-> TRUE, hdr |-> f.hdr, body |-> f.body \o words]]
    ELSE [r |-> s, file |-> f]

(* variant: the next output is scheduled one interval after t *)
HeartbeatAppend_reschedule(s, f, now) ==
    IF s.simulationarchive_next <= s.t
    THEN LET s1 == [s EXCEPT
                      !.simulationarchive_next = s.t + s.simulationarchive_interval,
                      !.simulationarchive_walltime = @ + (now - s.simulationarchive_time),
                      !.simulationarchive_time = now]
             s2 == IF s1.integrator \in {"WHFAST", "IAS15"} THEN s1
                   ELSE reb_error(s1, "Simulation archive not implemented for this integrator.")
             words == <<s1.t, s1.simulationarchive_walltime>> \o BlobPayload(s1)
         IN  [r |-> s2,
              file |-> [exists |-> TRUE, hdr |-> f.hdr, body |-> f.body \o words]]
    ELSE [r |-> s, file |-> f]

(* appending outputs, t != 0 *)
HeartbeatAppend(s, f, now) ==
    IF s.simulationarchive_next <= s.t
    THEN LET s1 == [s EXCEPT
                      !.simulationarchive_next = @ + s.simulationarchive_interval,
                      !.simulationarchive_walltime = @ + (now - s.simulationarchive_time),
                      !.simulationarchive_time = now]
             s2 == IF s1.integrator \in {"WHFAST", "IAS15"} THEN s1
                   ELSE reb_error(s1, "Simulation archive not implemented for this integrator.")
             words == <<s1.t, s1.simulationarchive_walltime>> \o BlobPayload(s1)
         IN  [r |-> s2,
              file |-> [exists |-> TRUE, hdr |-> f.hdr, body |-> f.body \o words]]
    ELSE [r |-> s, file |-> f]

(* variant: the wall-clock anchor is taken at every call with t != 0 *)
reb_simulationarchive_heartbeat_anchor(s, f, now) ==
    IF s.t = 0 THEN HeartbeatFirst(s, f, now)
    ELSE [HeartbeatAppend(s, f, now) EXCEPT !.r.simulationarchive_time = now]

reb_simulationarchive_heartbeat(s, f, now) ==
    IF s.t = 0 THEN HeartbeatFirst(s, f, now) ELSE HeartbeatAppend(s, f, now)

---------------------------------------------------------------------------
(* reb_simulationarchive_load_blob *)

(* variant: the loop test is strict, while (next < t) *)
RECURSIVE CatchUp_strict(_, _, _)
CatchUp_strict(next, t, interval) ==
    IF next < t THEN CatchUp_strict(next + interval, t, interval) ELSE next

(* while (next <= t) next += interval *)
RECURSIVE CatchUp(_, _, _)
CatchUp(next, t, interval) ==
    IF next <= t THEN CatchUp(next + interval, t, interval) ELSE next

(* variant: the latest blob is sought from the start of the file *)
BlobSeek_from_start(s, f, blob) ==
    IF blob < 0
    THEN fseek(f, -s.simulationarchive_seek_blob, "SEEK_SET")
    ELSE fseek(f, s.simulationarchive_seek_first
                  + (blob - 1) * s.simulationarchive_seek_blob, "SEEK_SET")

(* the seek of the loader: the latest blob for blob < 0, else blob number blob *)
BlobSeek(s, f, blob) ==
    IF blob < 0
    THEN fseek(f, -s.simulationarchive_seek_blob, "SEEK_END")
    ELSE fseek(f, s.simulationarchive_seek_first
                  + (blob - 1) * s.simulationarchive_seek_blob, "SEEK_SET")

(* the seven freads per particle, from word offset base+1 on: the mass   *)
(* goes to particles[i], the rest to ps[i]                               *)
ReadMass(s, f, pos, base, i, g) ==
    fread(f, pos, base + 7 * (i - 1) + 1, s.particles[i].m, g)

(* variant: x and y are read in the other order *)
ReadCoords_yx(p, f, pos, base, i, g) ==
    [p EXCEPT !.y  = fread(f, pos, base + 7 * (i - 1) + 2, @, g),
              !.x  = fread(f, pos, base + 7 * (i - 1) + 3, @, g),
              !.z  = fread(f, pos, base + 7 * (i - 1) + 4, @, g),
              !.vx = fread(f, pos, base + 7 * (i - 1) + 5, @, g),
              !.vy = fread(f, pos, base + 7 * (i - 1) + 6, @, g),
              !.vz = fread(f, pos, base + 7 * (i - 1) + 7, @, g)]

ReadCoords(p, f, pos, base, i, g) ==
    [p EXCEPT !.x  = fread(f, pos, base + 7 * (i - 1) + 2, @, g),
              !.y  = fread(f, pos, base + 7 * (i - 1) + 3, @, g),
              !.z  = fread(f, pos, base + 7 * (i - 1) + 4, @, g),
              !.vx = fread(f, pos, base + 7 * (i - 1) + 5, @, g),
              !.vy = fread(f, pos, base + 7 * (i - 1) + 6, @, g),
              !.vz = fread(f, pos, base + 7 * (i - 1) + 7, @, g)]

(* Jacobi masses: eta[0] = m[0], eta[i] = eta[i-1] + m[i] *)
RECURSIVE JacobiEta(_, _)
JacobiEta(ps, i) == IF i = 1 THEN ps[1].m ELSE JacobiEta(ps, i - 1) + ps[i].m

(* case REB_INTEGRATOR_WHFAST; u is the content of freshly malloc'ed memory *)
LoadWHFast(s, f, pos, g, u) ==
    LET N == s.N
        fresh == Particle(u, u, u, u, u, u, u)
        s1 == IF s.ri_whfast.safe_mode = 0 /\ s.ri_whfast.allocated_N < N
              THEN [s EXCEPT !.ri_whfast.p_j = [i \in 1..N |-> fresh],
                             !.ri_whfast.eta = [i \in 1..N |-> u],
                             !.ri_whfast.allocated_N = N]
              ELSE s
        ms == [i \in 1..N |-> ReadMass(s1, f, pos, 2, i, g)]
    IN  IF s1.ri_whfast.safe_mode = 0
        THEN LET pm == [i \in 1..N |-> [s1.particles[i] EXCEPT !.m = ms[i]]]
             IN  [s1 EXCEPT
                    !.particles = [i \in 1..Len(@) |-> IF i <= N THEN pm[i] ELSE @[i]],
                    !.ri_whfast.p_j = [i \in 1..Len(@) |->
                        IF i <= N
                        THEN [ReadCoords(@[i], f, pos, 2, i, g) EXCEPT !.m = ms[i]]
                        ELSE @[i]],
                    !.ri_whfast.is_synchronized = 0,
                    !.ri_whfast.eta = [i \in 1..Len(@) |->
                        IF i <= N THEN JacobiEta(pm, i) ELSE @[i]]]
        ELSE [s1 EXCEPT
                !.particles = [i \in 1..Len(@) |->
                    IF i <= N
                    THEN [ReadCoords(@[i], f, pos, 2, i, g) EXCEPT !.m = ms[i]]
                    ELSE @[i]]]

(* case REB_INTEGRATOR_IAS15 *)
LoadIAS15(s, f, pos, g) ==
    LET N  == s.N
        N3 == s.N * 3
        s1 == [s EXCEPT
                 !.dt = fread(f, pos, 3, @, g),
                 !.dt_last_done = fread(f, pos, 4, @, g),
                 !.particles = [i \in 1..Len(@) |->
                     IF i <= N
                     THEN [ReadCoords(@[i], f, pos, 4, i, g)
                             EXCEPT !.m = ReadMass(s, f, pos, 4, i, g)]
                     ELSE @[i]]]
        s2 == reb_integrator_ias15_alloc(s1)
        base == 4 + 7 * N
    IN  [s2 EXCEPT
           !.ri_ias15.b   = reb_read_dp7(@, N3, f, pos, base, g),
           !.ri_ias15.csb = reb_read_dp7(@, N3, f, pos, base + 7 * N3, g),
           !.ri_ias15.e   = reb_read_dp7(@, N3, f, pos, base + 14 * N3, g),
           !.ri_ias15.br  = reb_read_dp7(@, N3, f, pos, base + 21 * N3, g),
           !.ri_ias15.er  = reb_read_dp7(@, N3, f, pos, base + 28 * N3, g),
           !.ri_ias15.csx = [j \in 1..Len(@) |->
               IF j <= N3 THEN fread(f, pos, base + 35 * N3 + j, @[j], g) ELSE @[j]],
           !.ri_ias15.csv = [j \in 1..Len(@) |->
               IF j <= N3 THEN fread(f, pos, base + 36 * N3 + j, @[j], g) ELSE @[j]]]

(* t, walltime and the wall-clock anchor, lines 68-70 *)
LoadScalars(s, f, pos, now, g) ==
    [s EXCEPT !.t = fread(f, pos, 1, @, g),
              !.simulationarchive_walltime = fread(f, pos, 2, @, g),
              !.simulationarchive_time = now]

(* the switch on the integrator, lines 74-145 *)
LoadPayload(s, f, pos, g, u) ==
    CASE s.integrator = "WHFAST" -> LoadWHFast(s, f, pos, g, u)
      [] s.integrator = "IAS15" -> LoadIAS15(s, f, pos, g)
      [] OTHER -> reb_error(s, "Simulation archive not implemented for this integrator.")

(* the part of the loader after a successful seek, lines 68-147 *)
LoadFrom(s, f, pos, now, g, u) ==
    LET s0 == LoadScalars(s, f, pos, now, g)
        s1 == [s0 EXCEPT
                 !.simulationarchive_next =
                     CatchUp(@, s0.t, s0.simulationarchive_interval)]
    IN  LoadPayload(s1, f, pos, g, u)

(* variant: the wall-clock anchor is taken before the seek is checked *)
reb_simulationarchive_load_blob_early(rp, f, blob, now, g, u) ==
    IF ~f.exists THEN [ret |-> -1, r |-> rp]
    ELSE IF rp = <<>> THEN [ret |-> -2, r |-> rp]
    ELSE IF blob = 0
    THEN LET imp == reb_create_simulation_from_binary_with_messages(rp[1], f)
         IN  [ret |-> 0,
              r |-> <<IF imp.warnings
                      THEN reb_error(imp.r, "Cannot read binary file. Check filename and file contents.")
                      ELSE imp.r>>]
    ELSE LET sk == BlobSeek(rp[1], f, blob)
         IN  IF sk.ret # 0
             THEN [ret |-> -3,
                   r |-> <<[rp[1] EXCEPT !.simulationarchive_time = now]>>]
             ELSE [ret |-> 0, r |-> <<LoadFrom(rp[1], f, sk.pos, now, g, u)>>]

(* rp is the pointer r: <<>> for NULL, <<s>> for a simulation s *)
reb_simulationarchive_load_blob(rp, f, blob, now, g, u) ==
    IF ~f.exists THEN [ret |-> -1, r |-> rp]
    ELSE IF rp = <<>> THEN [ret |-> -2, r |-> rp]
    ELSE IF blob = 0
    THEN LET imp == reb_create_simulation_from_binary_with_messages(rp[1], f)
         IN  [ret |-> 0,
              r |-> <<IF imp.warnings
                      THEN reb_error(imp.r, "Cannot read binary file. Check filename and file contents.")
                      ELSE imp.r>>]
    ELSE LET sk == BlobSeek(rp[1], f, blob)
         IN  IF sk.ret # 0 THEN [ret |-> -3, r |-> rp]
             ELSE [ret |-> 0, r |-> <<LoadFrom(rp[1], f, sk.pos, now, g, u)>>]

(* the call returns: the catch-up loop of line 71 ends *)
LoadReturns(rp, f, blob, g) ==
    IF ~f.exists \/ rp = <<>> \/ blob = 0 THEN TRUE
    ELSE LET s  == rp[1]
             sk == BlobSeek(s, f, blob)
         IN  IF sk.ret # 0 \/ s.simulationarchive_interval > 0 THEN TRUE
             ELSE s.simulationarchive_next > fread(f, sk.pos, 1, s.t, g)

---------------------------------------------------------------------------
(* reb_simulationarchive_restart: r is the returned pointer, ret the     *)
(* local variable ret (0 when the load of the latest blob is not reached) *)

(* variant: restart loads the first blob instead of the latest *)
reb_simulationarchive_restart_first(f, now, g, u) ==
    IF ~f.exists THEN [r |-> <<>>, ret |-> 0]
    ELSE LET rp == reb_create_simulation_from_binary(f)
         IN  IF rp # <<>>
             THEN LET res == reb_simulationarchive_load_blob(rp, f, 1, now, g, u)
                  IN  IF res.ret # 0
                      THEN [r |-> <<reb_error(res.r[1], "Cannot read binary file.")>>,
                            ret |-> res.ret]
                      ELSE [r |-> res.r, ret |-> res.ret]
             ELSE [r |-> rp, ret |-> 0]

reb_simulationarchive_restart(f, now, g, u) ==
    IF ~f.exists THEN [r |-> <<>>, ret |-> 0]
    ELSE LET rp == reb_create_simulation_from_binary(f)
         IN  IF rp # <<>>
             THEN LET res == reb_simulationarchive_load_blob(rp, f, -1, now, g, u)
                  IN  IF res.ret # 0
                      THEN [r |-> <<reb_error(res.r[1], "Cannot read binary file.")>>,
                            ret |-> res.ret]
                      ELSE [r |-> res.r, ret |-> res.ret]
             ELSE [r |-> rp, ret |-> 0]

RestartReturns(f, g) ==
    IF ~f.exists THEN TRUE
    ELSE LoadReturns(reb_create_simulation_from_binary(f), f, -1, g)

---------------------------------------------------------------------------
(* The state machine.  r is the running simulation, q the pointer handed  *)
(* to the loader (or returned by restart), clock the wall clock.  The     *)
(* archive has one owner at a time: once it is read, the run that wrote   *)
(* it has stopped.  rd counts the blobs loaded into q since q was built.  *)
(* last, snaps and hb record the calls made: last the most recent call    *)
(* with the state before it, snaps the simulation right after each append *)
(* since the header was written, hb the heartbeat calls so far: their     *)
(* number at t == 0, the t of the latest, whether their t was strictly    *)
(* increasing from 0 (mono) and never advanced by more than one interval  *)
(* (small).                                                               *)
(* lp is the place a load taken statement by statement has reached; no   *)
(* such load runs in Spec.                                                *)

MaxFirst == 2
MaxLoads == 1

Supported == {"WHFAST", "IAS15"}

Setups ==
    {c \in [N : 1..MaxN, integrator : Integrators, safe_mode : {0, 1},
            gravity : Gravities, interval : 1..MaxInterval] :
        /\ c.integrator # "WHFAST" => c.safe_mode = 1
        /\ c.gravity # "BASIC" => c.N = 1 /\ c.interval = 1}

(* the values the header bytes can decode to in a load of blob into rp: *)
(* one value is enough when the load reads no byte of the header        *)
GarbageRead(rp, f, blob) ==
    IF f.exists /\ rp # <<>> /\ blob # 0
    THEN LET sk == BlobSeek(rp[1], f, blob)
         IN  IF sk.ret = 0 /\ sk.pos < HeaderLen(f) THEN HeaderGarbage ELSE {0}
    ELSE {0}

(* the values freshly allocated memory can hold: one value is enough *)
(* when the load allocates nothing                                   *)
GarbageAlloc(rp, blob) ==
    IF rp # <<>> /\ blob # 0
    THEN IF /\ rp[1].integrator = "WHFAST"
            /\ rp[1].ri_whfast.safe_mode = 0
            /\ rp[1].ri_whfast.allocated_N < rp[1].N
         THEN MallocGarbage ELSE {0}
    ELSE {0}

(* the archive is read before the run starts or after a heartbeat call *)
ReaderMayStart == hb.last_t \in {-1, r.t}

(* no load is in progress *)
Idle == [pc |-> "idle", pos |-> 0, g |-> 0, u |-> 0, prior |-> 0]

NoCall == [op |-> "none", blob |-> 0, tmax |-> 0, ret |-> 0, pre |-> <<>>,
           presize |-> 0, appended |-> FALSE]

Init ==
    /\ \E c \in Setups :
          r = SetupSimulation(c.N, c.integrator, c.gravity, c.safe_mode, c.interval)
    /\ file = NoFile
    /\ clock = 0
    /\ q = <<reb_create_simulation>>
    /\ rd = [reading |-> FALSE, loads |-> 0]
    /\ last = NoCall
    /\ snaps = <<>>
    /\ hb = [mono |-> TRUE, small |-> TRUE, last_t |-> -1, first |-> 0]
    /\ lp = Idle

(* the integrator advances the simulation by one step; wall time passes. *)
(* The integration loop calls the heartbeat at every step.               *)
Step ==
    \E d \in 1..MaxDt :
        /\ ~rd.reading
        /\ hb.last_t = r.t
        /\ r.t + d <= MaxT
        /\ r' = reb_step(r, d)
        /\ clock' = clock + 1
        /\ last' = [NoCall EXCEPT !.op = "step"]
        /\ UNCHANGED <<file, q, rd, snaps, hb, lp>>

HeartbeatCall ==
    /\ ~rd.reading
    /\ r.t = 0 => hb.first < MaxFirst
    /\ LET h == reb_simulationarchive_heartbeat(r, file, clock)
           app == r.t # 0 /\ r.simulationarchive_next <= r.t
       IN  /\ r' = h.r
           /\ file' = h.file
           /\ snaps' = IF r.t = 0 THEN <<>>
                       ELSE IF app THEN Append(snaps, h.r) ELSE snaps
           /\ hb' = [mono |-> hb.mono /\ (IF hb.last_t = -1 THEN r.t = 0
                                           ELSE r.t > hb.last_t),
                     small |-> hb.small /\ (hb.last_t = -1 \/
                         r.t - hb.last_t <= r.simulationarchive_interval),
                     last_t |-> r.t,
                     first |-> IF r.t = 0 THEN hb.first + 1 ELSE hb.first]
           /\ last' = [op |-> "heartbeat", blob |-> 0, tmax |-> 0, ret |-> 0,
                       pre |-> <<r>>,
                       presize |-> FileSize(file), appended |-> app]
    /\ UNCHANGED <<clock, q, rd, lp>>

LoadCall ==
    \E blob \in -1..MaxBlob :
      \E g \in GarbageRead(q, file, blob), u \in GarbageAlloc(q, blob) :
        /\ ReaderMayStart
        /\ blob # 0 => rd.loads < MaxLoads
        /\ LoadReturns(q, file, blob, g)
        /\ LET res == reb_simulationarchive_load_blob(q, file, blob, clock, g, u)
           IN  /\ q' = res.r
               /\ rd' = [reading |-> TRUE,
                         loads |-> IF blob = 0 THEN 0 ELSE rd.loads + 1]
               /\ last' = [op |-> "load", blob |-> blob, tmax |-> 0, ret |-> res.ret,
                           pre |-> q, presize |-> FileSize(file),
                           appended |-> FALSE]
        /\ UNCHANGED <<r, file, clock, snaps, hb, lp>>

RestartCall ==
    \E g \in GarbageRead(reb_create_simulation_from_binary(file), file, -1),
       u \in GarbageAlloc(reb_create_simulation_from_binary(file), -1) :
        /\ ReaderMayStart
        /\ RestartReturns(file, g)
        /\ LET res == reb_simulationarchive_restart(file, clock, g, u)
           IN  /\ q' = res.r
               /\ rd' = [reading |-> TRUE, loads |-> IF res.r = <<>> THEN 0 ELSE 1]
               /\ last' = [op |-> "restart", blob |-> -1, tmax |-> 0, ret |-> res.ret,
                           pre |-> q, presize |-> FileSize(file),
                           appended |-> FALSE]
        /\ UNCHANGED <<r, file, clock, snaps, hb, lp>>

(* the caller allocates a fresh simulation after restart returned NULL *)
CreateCall ==
    /\ q = <<>>
    /\ q' = <<reb_create_simulation>>
    /\ rd' = [rd EXCEPT !.loads = 0]
    /\ last' = [NoCall EXCEPT !.op = "create"]
    /\ UNCHANGED <<r, file, clock, snaps, hb, lp>>

Next == Step \/ HeartbeatCall \/ LoadCall \/ RestartCall \/ CreateCall

Spec == Init /\ [][Next]_vars

(* The size estimate in a run that calls the heartbeat once after every  *)
(* step, the archive interval left unset (0) included.                   *)
EstimateSetups ==
    {c \in [N : 1..MaxN, integrator : Integrators, safe_mode : {0, 1},
            gravity : {"BASIC"}, interval : 0..MaxInterval] :
        c.integrator # "WHFAST" => c.safe_mode = 1}

InitEstimate ==
    /\ \E c \in EstimateSetups :
          r = SetupSimulation(c.N, c.integrator, c.gravity, c.safe_mode, c.interval)
    /\ file = NoFile
    /\ clock = 0
    /\ q = <<reb_create_simulation>>
    /\ rd = [reading |-> FALSE, loads |-> 0]
    /\ last = NoCall
    /\ snaps = <<>>
    /\ hb = [mono |-> TRUE, small |-> TRUE, last_t |-> -1, first |-> 0]
    /\ lp = Idle

(* the caller asks for the size the archive will have at time tmax *)
EstimateCall ==
    \E tmax \in 0..MaxTmax :
        /\ ~rd.reading
        /\ LET e == reb_simulationarchive_estimate_size(r, tmax)
           IN  /\ r' = e.r
               /\ last' = [op |-> "estimate", blob |-> 0, tmax |-> tmax,
                           ret |-> e.ret, pre |-> <<r>>,
                           presize |-> FileSize(file), appended |-> FALSE]
        /\ UNCHANGED <<file, clock, q, rd, snaps, hb, lp>>

(* the heartbeat call the integration loop makes after a step *)
HeartbeatOnce == hb.last_t # r.t /\ HeartbeatCall

NextEstimate == Step \/ HeartbeatOnce \/ EstimateCall

SpecEstimate == InitEstimate /\ [][NextEstimate]_vars

(* Runs in which the user changes the number of particles or the         *)
(* integrator once after the header was written: in the running          *)
(* simulation, between a heartbeat call and the next step, or in the     *)
(* simulation built from the header, before a blob is loaded into it.    *)
(* An archive is read only if the run that wrote it was not changed.     *)
Changes == [N : 1..MaxN, integrator : Integrators]

(* simulation s has the N and the integrator stored in the header of f *)
AsWritten(s, f) ==
    /\ f.hdr # <<>>
    /\ s.N = f.hdr[1].N /\ s.integrator = f.hdr[1].integrator

Changed(s, c) ==
    [s EXCEPT !.N = c.N, !.integrator = c.integrator,
              !.particles = [i \in 1..c.N |-> InertialParticle(i, s.t)]]

Reconfigure ==
    \E c \in Changes :
        /\ ~rd.reading
        /\ hb.last_t = r.t
        /\ AsWritten(r, file)
        /\ c.N # r.N \/ c.integrator # r.integrator
        /\ c.integrator # "WHFAST" => r.ri_whfast.safe_mode = 1
        /\ r' = Changed(r, c)
        /\ last' = [NoCall EXCEPT !.op = "reconfigure"]
        /\ UNCHANGED <<file, clock, q, rd, snaps, hb, lp>>

ReconfigureLoaded ==
    \E c \in Changes :
        /\ rd.reading /\ rd.loads = 0
        /\ q # <<>>
        /\ AsWritten(q[1], file)
        /\ c.N # q[1].N \/ c.integrator # q[1].integrator
        /\ c.integrator # "WHFAST" => q[1].ri_whfast.safe_mode = 1
        /\ q' = <<Changed(q[1], c)>>
        /\ last' = [NoCall EXCEPT !.op = "reconfigure"]
        /\ UNCHANGED <<r, file, clock, rd, snaps, hb, lp>>

LoadUnchanged == (file.hdr # <<>> => AsWritten(r, file)) /\ LoadCall

NextGeometry ==
    \/ Step \/ HeartbeatOnce \/ Reconfigure \/ EstimateCall
    \/ LoadUnchanged \/ ReconfigureLoaded

SpecGeometry == Init /\ [][NextGeometry]_vars

(* The loader statement by statement.  lp is the place the call has      *)
(* reached: "test" before the test of the loop of line 71, "body" before *)
(* its body, "payload" before the switch of line 74, "idle" when no call *)
(* is running; pos, g and u are the position the seek reached and the    *)
(* values of the bytes and the memory the call decodes, prior the value  *)
(* of next when the call was made.                                       *)
LoadBegin ==
    \E blob \in -1..MaxBlob :
      \E g \in GarbageRead(q, file, blob), u \in GarbageAlloc(q, blob) :
        LET early == IF ~file.exists \/ q = <<>> \/ blob = 0 THEN TRUE
                     ELSE BlobSeek(q[1], file, blob).ret # 0
            res == reb_simulationarchive_load_blob(q, file, blob, clock, g, u)
        IN  /\ lp.pc = "idle"
            /\ ReaderMayStart
            /\ blob # 0 => rd.loads < MaxLoads
            /\ IF early
               THEN q' = res.r /\ lp' = Idle
               ELSE LET sk == BlobSeek(q[1], file, blob)
                    IN  /\ q' = <<LoadScalars(q[1], file, sk.pos, clock, g)>>
                        /\ lp' = [pc |-> "test", pos |-> sk.pos, g |-> g, u |-> u,
                                  prior |-> q[1].simulationarchive_next]
            /\ rd' = [reading |-> TRUE,
                      loads |-> IF blob = 0 THEN 0 ELSE rd.loads + 1]
            /\ last' = [op |-> "load", blob |-> blob, tmax |-> 0,
                        ret |-> IF early THEN res.ret ELSE 0,
                        pre |-> q, presize |-> FileSize(file),
                        appended |-> FALSE]
            /\ UNCHANGED <<r, file, clock, snaps, hb>>

(* while (r->simulationarchive_next <= r->t) *)
LoopTest ==
    /\ lp.pc = "test"
    /\ lp' = [lp EXCEPT !.pc = IF q[1].simulationarchive_next <= q[1].t
                               THEN "body" ELSE "payload"]
    /\ UNCHANGED <<r, file, clock, q, rd, last, snaps, hb>>

(* r->simulationarchive_next += r->simulationarchive_interval *)
LoopBody ==
    /\ lp.pc = "body"
    /\ q' = <<[q[1] EXCEPT !.simulationarchive_next =
                              @ + q[1].simulationarchive_interval]>>
    /\ lp' = [lp EXCEPT !.pc = "test"]
    /\ UNCHANGED <<r, file, clock, rd, last, snaps, hb>>

(* the switch, fclose and return 0 *)
LoadEnd ==
    /\ lp.pc = "payload"
    /\ q' = <<LoadPayload(q[1], file, lp.pos, lp.g, lp.u)>>
    /\ lp' = Idle
    /\ UNCHANGED <<r, file, clock, rd, last, snaps, hb>>

NextLoad ==
    Step \/ HeartbeatOnce \/ LoadBegin \/ LoopTest \/ LoopBody \/ LoadEnd

(* the call runs on the thread of the caller, which goes on executing *)
SpecLoad ==
    /\ InitEstimate /\ [][NextLoad]_vars
    /\ WF_vars(LoopTest) /\ WF_vars(LoopBody) /\ WF_vars(LoadEnd)

---------------------------------------------------------------------------
(* Properties *)

(* number of blobs appended since the header was written *)
K == Len(snaps)

(* p carries the geometry and configuration stored in the header of the file *)
FromArchive(p) ==
    /\ file.hdr # <<>>
    /\ p.N = file.hdr[1].N
    /\ p.integrator = file.hdr[1].integrator
    /\ p.ri_whfast.safe_mode = file.hdr[1].ri_whfast.safe_mode
    /\ p.simulationarchive_seek_blob = file.hdr[1].simulationarchive_seek_blob
    /\ p.simulationarchive_seek_first = file.hdr[1].simulationarchive_seek_first

(* C1: after heartbeat calls with strictly increasing t, the first at     *)
(* t == 0, next is strictly greater than the t of the most recent call.   *)
C1_MonotonicSchedule ==
    (hb.mono /\ hb.last_t >= 0 /\ r.simulationarchive_interval > 0)
        => r.simulationarchive_next > hb.last_t

(* C1 as amended: the same, for calls none of which advances t by more    *)
(* than one interval over the previous call.                              *)
C1_MonotonicScheduleSmallSteps ==
    (hb.mono /\ hb.small /\ hb.last_t >= 0 /\ r.simulationarchive_interval > 0)
        => r.simulationarchive_next > hb.last_t

C1_Witness ==
    /\ hb.mono /\ hb.small /\ K >= 2
    /\ last.op = "heartbeat" /\ last.appended
    /\ r.simulationarchive_interval = 2
    /\ r.simulationarchive_next = r.t + r.simulationarchive_interval

(* recordSize(kind, N) as the specification states it *)
RecordSize(kind, N) ==
    IF kind = "WHFAST" THEN 8 * (2 + 7 * N) ELSE 8 * (4 + 118 * N)

(* C2: for a supported integrator, seek_blob is recordSize(kind, N), every *)
(* appending heartbeat call grows the file by exactly seek_blob bytes, and *)
(* after the header and K blobs the file length is seek_first + K *        *)
(* seek_blob, seek_first being the length of the header.                   *)
C2_FixedRecordSize ==
    (r.integrator \in Supported /\ file.hdr # <<>>) =>
        /\ r.simulationarchive_seek_blob = RecordSize(r.integrator, r.N)
        /\ r.simulationarchive_seek_first = HeaderLen(file)
        /\ FileSize(file) = r.simulationarchive_seek_first
                            + K * r.simulationarchive_seek_blob
        /\ (last.op = "heartbeat" /\ last.appended) =>
              FileSize(file) = last.presize + r.simulationarchive_seek_blob

C2_Witness ==
    /\ r.integrator \in Supported
    /\ last.op = "heartbeat" /\ last.appended
    /\ K >= 2

(* position and velocity of particle arrays a and b agree on 1..N *)
SameCoords(a, b, N) ==
    \A i \in 1..N :
        /\ a[i].x = b[i].x /\ a[i].y = b[i].y /\ a[i].z = b[i].z
        /\ a[i].vx = b[i].vx /\ a[i].vy = b[i].vy /\ a[i].vz = b[i].vz

(* every field the writer stored from s is found in a, and the derived    *)
(* Jacobi masses of a are those of the masses of s                        *)
RoundTrip(a, s) ==
    /\ a.t = s.t
    /\ a.simulationarchive_walltime = s.simulationarchive_walltime
    /\ \A i \in 1..s.N : a.particles[i].m = s.particles[i].m
    /\ s.integrator = "WHFAST" =>
          IF s.ri_whfast.safe_mode = 0
          THEN /\ SameCoords(a.ri_whfast.p_j, s.ri_whfast.p_j, s.N)
               /\ a.ri_whfast.is_synchronized = 0
               /\ \A i \in 1..s.N :
                     a.ri_whfast.eta[i] =
                         PrefixSum([k \in 1..s.N |-> s.particles[k].m], i)
          ELSE SameCoords(a.particles, s.particles, s.N)
    /\ s.integrator = "IAS15" =>
          /\ a.dt = s.dt
          /\ a.dt_last_done = s.dt_last_done
          /\ SameCoords(a.particles, s.particles, s.N)
          /\ a.ri_ias15.b = s.ri_ias15.b
          /\ a.ri_ias15.csb = s.ri_ias15.csb
          /\ a.ri_ias15.e = s.ri_ias15.e
          /\ a.ri_ias15.br = s.ri_ias15.br
          /\ a.ri_ias15.er = s.ri_ias15.er
          /\ a.ri_ias15.csx = s.ri_ias15.csx
          /\ a.ri_ias15.csv = s.ri_ias15.csv

(* a blob load into a simulation built from this archive returned success *)
LoadedBlob ==
    /\ last.op = "load" /\ last.blob # 0 /\ last.ret = 0
    /\ r.integrator \in Supported
    /\ last.pre # <<>> /\ FromArchive(last.pre[1])

(* C3: a blob appended from state s and loaded by its index into a state  *)
(* with the same N, integrator and safe mode gives back every stored      *)
(* field of s; for WHFAST outside safe mode eta is the running sum of the *)
(* masses of s and the state is marked unsynchronized.                    *)
C3_RoundTrip ==
    (LoadedBlob /\ last.blob \in 1..K) => RoundTrip(q[1], snaps[last.blob])

C3_Witness ==
    /\ LoadedBlob /\ last.blob = 2 /\ K >= 3
    /\ r.integrator = "WHFAST" /\ r.ri_whfast.safe_mode = 0 /\ r.N >= 2

C3_WitnessIAS15 ==
    /\ LoadedBlob /\ last.blob = 2 /\ K >= 3
    /\ r.integrator = "IAS15"

(* C4: with K >= 1 blobs in the archive, the load of index -1 gives the   *)
(* state and the status that the load of index K gives from the same      *)
(* state.                                                                *)
C4_LatestAddressing ==
    (/\ last.op = "load" /\ last.blob = -1 /\ K >= 1
     /\ r.integrator \in Supported
     /\ last.pre # <<>> /\ FromArchive(last.pre[1]))
        => [ret |-> last.ret, r |-> q]
             = reb_simulationarchive_load_blob(last.pre, file, K, clock, 0, 0)

C4_Witness ==
    /\ last.op = "load" /\ last.blob = -1 /\ K >= 2 /\ last.ret = 0
    /\ r.integrator \in Supported
    /\ last.pre # <<>> /\ FromArchive(last.pre[1])
    /\ q[1].t = snaps[K].t

(* C5: the load of an index beyond the last blob returns a failure status *)
C5_Boundary ==
    (/\ last.op = "load" /\ last.blob > K
     /\ r.integrator \in Supported
     /\ last.pre # <<>> /\ FromArchive(last.pre[1]))
        => last.ret # 0

(* C6: a load that fails because the file is absent or the seek failed    *)
(* leaves the simulation as it was before the call.                      *)
C6_FailedLoadKeepsState ==
    (last.op = "load" /\ last.ret \in {-1, -3}) => q = last.pre

C6_Witness ==
    last.op = "load" /\ last.ret = -3 /\ last.pre # <<>>

C6_WitnessAbsent ==
    last.op = "load" /\ last.ret = -1 /\ last.pre # <<>>

(* C7: restart from an archive with K >= 1 blobs gives the t stored in    *)
(* blob K, the t of the last heartbeat call that appended.               *)
C7_RestartLastCheckpoint ==
    (last.op = "restart" /\ K >= 1 /\ r.integrator \in Supported)
        => /\ q # <<>>
           /\ q[1].t = snaps[K].t

C7_Witness ==
    /\ last.op = "restart" /\ K >= 1 /\ r.integrator \in Supported
    /\ q # <<>> /\ q[1].t = snaps[K].t
    /\ r.t > snaps[K].t

(* C8: restart returns no simulation when the load of the latest blob    *)
(* failed.                                                               *)
C8_RestartAllOrNothing ==
    (last.op = "restart" /\ last.ret # 0) => q = <<>>

(* C9: next after restart is the value next had in the run right after   *)
(* the heartbeat call that appended blob K.                              *)
C9_RestartKeepsSchedule ==
    (/\ last.op = "restart" /\ K >= 1 /\ hb.mono
     /\ r.integrator \in Supported /\ q # <<>>)
        => q[1].simulationarchive_next = snaps[K].simulationarchive_next

(* C9 as amended: the same, for runs in which no heartbeat call advances  *)
(* t by more than one interval over the previous call; the restarted     *)
(* simulation then has the t, the interval and the next of the run right *)
(* after blob K was appended.                                            *)
C9_RestartKeepsScheduleSmallSteps ==
    (/\ last.op = "restart" /\ K >= 1 /\ hb.mono /\ hb.small
     /\ r.integrator \in Supported)
        => /\ q # <<>>
           /\ q[1].t = snaps[K].t
           /\ q[1].simulationarchive_interval = snaps[K].simulationarchive_interval
           /\ q[1].simulationarchive_next = snaps[K].simulationarchive_next

C9_Witness ==
    /\ last.op = "restart" /\ K >= 2 /\ hb.mono /\ hb.small
    /\ r.integrator \in Supported
    /\ q # <<>>
    /\ q[1].simulationarchive_next = snaps[K].simulationarchive_next
    /\ q[1].simulationarchive_next > file.hdr[1].simulationarchive_next

(* C10: with an unsupported integrator or gravity mode the heartbeat     *)
(* reports it and writes nothing: no header, no appended bytes.          *)
C10_UnsupportedSkipsArchive ==
    (/\ r.integrator \notin Supported \/ r.gravity \notin {"BASIC", "NONE"}
     /\ hb.last_t >= 0)
        => /\ r.messages # {}
           /\ FileSize(file) = 0

(* the particle data and the integrator buffers of a and b are the same *)
SameBuffers(a, b) ==
    /\ a.particles = b.particles
    /\ a.dt = b.dt /\ a.dt_last_done = b.dt_last_done
    /\ a.ri_whfast = b.ri_whfast
    /\ a.ri_ias15 = b.ri_ias15

(* a blob load into a simulation with an unsupported integrator got past *)
(* the seek                                                              *)
UnsupportedLoad ==
    /\ last.op = "load" /\ last.blob # 0
    /\ last.pre # <<>> /\ last.pre[1].integrator \notin Supported
    /\ file.exists
    /\ BlobSeek(last.pre[1], file, last.blob).ret = 0

(* C11: the load of a non-zero index into a simulation whose integrator  *)
(* is unsupported returns a failure status, with no particle and no      *)
(* integrator buffer modified.                                           *)
C11_UnsupportedLoadFails ==
    UnsupportedLoad =>
        /\ last.ret # 0
        /\ SameBuffers(q[1], last.pre[1])

(* the content of the file: the header, then the words of the blobs *)
Content(f) == f.hdr \o f.body

(* sequence a is a prefix of sequence b *)
IsPrefix(a, b) == Len(a) <= Len(b) /\ SubSeq(b, 1, Len(a)) = a

(* C12: the content of the file before a heartbeat call is a prefix of   *)
(* its content after the call: once the header is written, no heartbeat  *)
(* call truncates or rewrites bytes that are in the file.                *)
C12_AppendOnly ==
    [][last'.op = "heartbeat" => IsPrefix(Content(file), Content(file'))]_vars

(* the least number k of intervals with k * interval >= tmax *)
BlobsUntil(tmax, interval) ==
    CHOOSE k \in 0..tmax :
        k * interval >= tmax /\ (k = 0 \/ (k - 1) * interval < tmax)

(* C13: for a supported integrator and tmax >= 0 the size estimate is    *)
(* recordSize(kind, N) * ceil(tmax / interval) when interval > 0 and 0,  *)
(* with a warning, when interval == 0; the call changes no field of the  *)
(* simulation (the warning apart) and leaves the file as it is.          *)
C13_EstimateSize ==
    [][(last'.op = "estimate" /\ r.integrator \in Supported) =>
          /\ r.simulationarchive_interval > 0 =>
                /\ last'.ret = RecordSize(r.integrator, r.N)
                       * BlobsUntil(last'.tmax, r.simulationarchive_interval)
                /\ r' = r
          /\ r.simulationarchive_interval = 0 =>
                /\ last'.ret = 0
                /\ "Simulationarchive interval not set." \in r'.messages
                /\ [r' EXCEPT !.messages = r.messages] = r
          /\ file' = file]_vars

C13_Witness ==
    /\ last.op = "estimate" /\ r.integrator \in Supported
    /\ r.simulationarchive_interval = 2 /\ last.tmax = 3
    /\ last.ret = 2 * RecordSize(r.integrator, r.N)
    /\ K >= 1

C13_WitnessUnset ==
    /\ last.op = "estimate" /\ r.integrator \in Supported
    /\ r.simulationarchive_interval = 0 /\ last.tmax = 3
    /\ last.ret = 0
    /\ file.exists

(* C14: a heartbeat call with t != 0 and t < next writes nothing to the  *)
(* file and leaves every field of the simulation as it was.              *)
C14_QuietHeartbeat ==
    [][(/\ last'.op = "heartbeat"
        /\ r.t # 0
        /\ r.t < r.simulationarchive_next) => (r' = r /\ file' = file)]_vars

C14_Witness ==
    /\ last.op = "heartbeat" /\ ~last.appended
    /\ last.pre[1].t # 0
    /\ last.pre[1].t < last.pre[1].simulationarchive_next
    /\ last.pre[1].simulationarchive_time < clock
    /\ r = last.pre[1]
    /\ K >= 1

(* C15: a heartbeat call with t != 0 and next <= t appends one blob,     *)
(* which starts with t, and advances next by one interval, once; when t  *)
(* was at least one interval past next, next <= t holds after the call   *)
(* as well, so that the heartbeat call that follows, which is again a    *)
(* call with next <= t, appends one more blob.                           *)
C15_SingleCatchUp ==
    [][(/\ last'.op = "heartbeat"
        /\ r.t # 0
        /\ r.simulationarchive_next <= r.t) =>
          /\ r'.simulationarchive_next
                = r.simulationarchive_next + r.simulationarchive_interval
          /\ r'.t = r.t
          /\ r'.simulationarchive_interval = r.simulationarchive_interval
          /\ file'.hdr = file.hdr
          /\ IsPrefix(file.body, file'.body)
          /\ Len(file'.body) > Len(file.body)
          /\ file'.body[Len(file.body) + 1] = r.t
          /\ r.integrator \in Supported =>
                SizeofDouble * (Len(file'.body) - Len(file.body))
                    = RecordSize(r.integrator, r.N)
          /\ r.t - r.simulationarchive_next >= r.simulationarchive_interval =>
                r'.simulationarchive_next <= r'.t]_vars

C15_Witness ==
    /\ last.op = "heartbeat" /\ last.appended
    /\ K >= 2
    /\ snaps[K - 1].simulationarchive_next <= snaps[K - 1].t
    /\ snaps[K].t = snaps[K - 1].t
    /\ last.pre[1] = snaps[K - 1]
    /\ r.simulationarchive_next
          = snaps[K - 1].simulationarchive_next + r.simulationarchive_interval

(* C16: after a heartbeat call made with t == 0, next equals interval    *)
(* and walltime equals 0, whatever next was before the call and however  *)
(* many heartbeat calls with t == 0 came before it.                      *)
C16_FirstCallSetsSchedule ==
    (last.op = "heartbeat" /\ last.pre[1].t = 0) =>
        /\ r.simulationarchive_next = r.simulationarchive_interval
        /\ r.simulationarchive_walltime = 0

(* the two fields that locate the blobs in the file *)
Geometry(s) ==
    <<s.simulationarchive_seek_blob, s.simulationarchive_seek_first>>

(* C17: seek_blob of the running simulation changes only in a heartbeat  *)
(* call with t == 0; no heartbeat call with t != 0, no load of a         *)
(* non-zero index and no size estimate changes seek_blob or seek_first,  *)
(* also when N or the integrator is no longer what it was when the       *)
(* header was written.                                                   *)
C17_GeometryFrozen ==
    [][/\ Geometry(r') # Geometry(r) => (last'.op = "heartbeat" /\ r.t = 0)
       /\ (last'.op = "load" /\ last'.blob # 0 /\ q # <<>>) =>
             (q' # <<>> /\ Geometry(q'[1]) = Geometry(q[1]))]_vars

C17_Witness ==
    /\ file.hdr # <<>> /\ ~AsWritten(r, file)
    /\ last.op = "heartbeat" /\ last.appended
    /\ r.integrator \in Supported
    /\ r.simulationarchive_seek_blob # RecordSize(r.integrator, r.N)
    /\ Geometry(r) = Geometry(file.hdr[1])

C17_WitnessLoad ==
    /\ last.op = "load" /\ last.blob # 0 /\ last.ret = 0
    /\ file.hdr # <<>> /\ q # <<>> /\ ~AsWritten(q[1], file)
    /\ q[1].integrator \in Supported
    /\ q[1].simulationarchive_seek_blob # RecordSize(q[1].integrator, q[1].N)
    /\ Geometry(q[1]) = Geometry(file.hdr[1])
    /\ K >= 1

C17_WitnessEstimate ==
    /\ file.hdr # <<>> /\ ~AsWritten(r, file)
    /\ last.op = "estimate" /\ last.ret > 0
    /\ r.integrator \in Supported
    /\ r.simulationarchive_seek_blob # RecordSize(r.integrator, r.N)
    /\ Geometry(r) = Geometry(file.hdr[1])

(* C18: a load of a negative index that returns success has read only    *)
(* bytes at offsets at or after the end of the header; with no blob in   *)
(* the file neither that load nor restart reports success with t and     *)
(* particle data decoded from bytes of the header.                       *)
C18_LatestReadsNoHeader ==
    /\ (last.op = "load" /\ last.blob < 0 /\ last.ret = 0 /\ last.pre # <<>>) =>
          BlobSeek(last.pre[1], file, last.blob).pos >= HeaderLen(file)
    /\ (last.op = "restart" /\ last.ret = 0 /\ q # <<>>) =>
          BlobSeek(file.hdr[1], file, -1).pos >= HeaderLen(file)

(* C19: every load of a non-zero index returns: the loop that advances   *)
(* next ends for every interval the archive can have been written with,  *)
(* the unset interval 0 included.                                        *)
C19_LoadTerminates == (lp.pc # "idle") ~> (lp.pc = "idle")

(* C19, second half: when the loop has ended, next is the least value    *)
(* prior + k * interval, k >= 0, that is greater than the loaded t.      *)
C19_LeastNextPastT ==
    lp.pc = "payload" =>
        LET s == q[1]
            d == s.simulationarchive_next - lp.prior
            i == s.simulationarchive_interval
        IN  /\ s.simulationarchive_next > s.t
            /\ IF d = 0 THEN TRUE
               ELSE i > 0 /\ d % i = 0 /\ s.simulationarchive_next - i <= s.t

C19_WitnessLoop ==
    /\ lp.pc = "body"
    /\ q[1].simulationarchive_interval = 0
    /\ file.hdr # <<>> /\ file.hdr[1].simulationarchive_interval = 0
    /\ K >= 1

====
